---- MODULE Spec2Model ----
(***************************************************************************)
(* A model of src/app.py: the MQTT ingestion callbacks (on_connect,        *)
(* on_message), the shared store they fill, and the Streamlit script run   *)
(* that reads it (snapshot_devices, build_incidents, the device tab, the   *)
(* event stream).                                                          *)
(*                                                                         *)
(* Numbers are integers: latencies in ms, RSSI in dBm, time in ticks of    *)
(* 1/TicksPerSec second.  A Python value that may be None is a sequence:   *)
(* <<>> is None, <<v>> is the number v.  A JSON value is a record tagged   *)
(* by its field k.                                                         *)
(***************************************************************************)
EXTENDS Integers, Sequences, FiniteSets, TLC

\* ------------------------------------------------------------------ bounds

\* Messages the broker delivers in one behaviour.
MaxMsgs == 2
\* Messages delivered in one behaviour of the history specification.
MaxHistMsgs == 6
\* Messages delivered in one behaviour of the threaded specification.
MaxConcMsgs == 2
\* Messages delivered in one behaviour of the lock's specification.
MaxLockMsgs == 2
\* Messages delivered in one behaviour of the anomaly specification.
MaxAnomMsgs == 5
\* Messages delivered in one behaviour of the frame specification.
MaxFrameMsgs == 3
\* Messages delivered in one behaviour of the explainer specification.
MaxAskMsgs == 2
\* Messages delivered in one behaviour of the health specification.
MaxHealthMsgs == 2
\* Messages delivered in one behaviour of the incident specification.
MaxIncMsgs == 2
\* The clock stops advancing here (ticks).
MaxTime == 5
\* Clock ticks per second: 2 makes half seconds visible.
TicksPerSec == 2
\* deque(maxlen=1200) of lat_hist and score_hist, scaled down; above z_window, as
\* 1200 is above the window's largest setting.
HistMaxlen == 5
\* deque(maxlen=3000) of events, scaled down.
EventsMaxlen == 2
\* The sidebar's "Rolling window (samples)" and "Min samples", scaled down.
z_window == 4
min_samples == 4
\* The sidebar's "Online grace (s)", scaled down.
online_grace_s == 1

\* ---------------------------------------------------- sidebar thresholds

rssi_bad == -80
lat_warn == 150
jit_warn == 50
loss_warn == 3
\* The sidebar's "Z-threshold" at 1.5, as the fraction z_thresh_num / z_thresh_den.
z_thresh_num == 3
z_thresh_den == 2

\* ------------------------------------------------------------ JSON values

None == <<>>
Some(v) == <<v>>

Missing == [k |-> "missing"]
Null == [k |-> "null"]
Num(n) == [k |-> "num", v |-> n]
Str(s) == [k |-> "str", s |-> s]
Bool(b) == [k |-> "bool", b |-> b]
Obj(f) == [k |-> "obj", f |-> f]

EmptyDict == [x \in {} |-> Null]

\* d[key] = value
DictSet(d, key, value) == [x \in (DOMAIN d) \cup {key} |-> IF x = key THEN value ELSE d[x]]

\* d.get(key): None when the key is absent
DictGet(d, key) == IF key \in DOMAIN d THEN d[key] ELSE Null

\* d.get(key, default)
DictGetDefault(d, key, default) == IF key \in DOMAIN d THEN d[key] ELSE default

IsDict(x) == x.k = "obj"

\* bool(x) of a JSON value
Truthy(x) ==
    CASE x.k = "bool" -> x.b
      [] x.k = "num" -> x.v # 0
      [] x.k = "str" -> x.s # ""
      [] x.k = "obj" -> DOMAIN x.f # {}
      [] OTHER -> FALSE

safe_num(x) ==
    CASE x.k = "num" -> Some(x.v)
      [] x.k = "bool" -> Some(IF x.b THEN 1 ELSE 0)
      [] OTHER -> None

\* ---------------------------------------------------------------- scoring

Max2(a, b) == IF a >= b THEN a ELSE b
Min2(a, b) == IF a <= b THEN a ELSE b

clamp(v, lo, hi) == Max2(lo, Min2(hi, v))

\* Mutant of rssi_penalty: the tier bounds are exclusive
rssi_penalty_exclusive(rssi) == IF rssi > -60 THEN 0 ELSE IF rssi > -70 THEN 8 ELSE IF rssi > -80 THEN 20 ELSE 35

\* Lines 60-67: the penalty of each reading
rssi_penalty(rssi) == IF rssi >= -60 THEN 0 ELSE IF rssi >= -70 THEN 8 ELSE IF rssi >= -80 THEN 20 ELSE 35
latency_penalty(latency) == IF latency <= 60 THEN 0 ELSE IF latency <= 120 THEN 10 ELSE IF latency <= 200 THEN 25 ELSE 40
\* Mutant of jitter_penalty: the two middle tiers are swapped
jitter_penalty_swapped(jitter) == IF jitter <= 15 THEN 0 ELSE IF jitter <= 35 THEN 20 ELSE IF jitter <= 60 THEN 10 ELSE 30

jitter_penalty(jitter) == IF jitter <= 15 THEN 0 ELSE IF jitter <= 35 THEN 10 ELSE IF jitter <= 60 THEN 20 ELSE 30
loss_penalty(loss) == IF loss <= 1 THEN 0 ELSE IF loss <= 3 THEN 15 ELSE IF loss <= 6 THEN 30 ELSE 45

\* Mutant of compute_score: a reading of 0 counts as absent in the test of line 57
compute_score_zero_is_absent(rssi, latency, jitter, loss) ==
    IF rssi \in {None, Some(0)} /\ latency \in {None, Some(0)} /\ jitter \in {None, Some(0)} /\ loss \in {None, Some(0)}
    THEN None
    ELSE Some(clamp(100
                    - (IF rssi # None THEN rssi_penalty(rssi[1]) ELSE 0)
                    - (IF latency # None THEN latency_penalty(latency[1]) ELSE 0)
                    - (IF jitter # None THEN jitter_penalty(jitter[1]) ELSE 0)
                    - (IF loss # None THEN loss_penalty(loss[1]) ELSE 0),
                    0, 100))

\* Lines 56-68
compute_score(rssi, latency, jitter, loss) ==
    IF rssi = None /\ latency = None /\ jitter = None /\ loss = None
    THEN None
    ELSE Some(clamp(100
                    - (IF rssi # None THEN rssi_penalty(rssi[1]) ELSE 0)
                    - (IF latency # None THEN latency_penalty(latency[1]) ELSE 0)
                    - (IF jitter # None THEN jitter_penalty(jitter[1]) ELSE 0)
                    - (IF loss # None THEN loss_penalty(loss[1]) ELSE 0),
                    0, 100))

sev_from_score(score) ==
    IF score = None THEN "unknown"
    ELSE IF score[1] >= 85 THEN "ok"
    ELSE IF score[1] >= 70 THEN "warn"
    ELSE "bad"

\* ------------------------------------------------------------------ deque

\* Mutant of deque_append: a full deque drops the new entry instead of the oldest
deque_append_keeps_oldest(dq, x, maxlen) ==
    IF Len(dq) < maxlen THEN Append(dq, x) ELSE dq

\* deque(maxlen=n).append(x): the oldest entry (the leftmost) is dropped when full
deque_append(dq, x, maxlen) ==
    IF Len(dq) < maxlen THEN Append(dq, x) ELSE Append(Tail(dq), x)

\* deque(maxlen=n).appendleft(x): the rightmost entry is dropped when full
deque_appendleft(dq, x, maxlen) ==
    IF Len(dq) < maxlen THEN <<x>> \o dq ELSE <<x>> \o SubSeq(dq, 1, maxlen - 1)

\* ------------------------------------------------------------------ store

\* Device ids the payloads carry; a payload without device_id is "unknown".
DeviceIds == {"d1", "d2"}
Keys == DeviceIds \cup {"unknown"}

\* The order of Python's string comparison on the ids of the model.
DevRank(d) == CASE d = "d1" -> 1 [] d = "d2" -> 2 [] OTHER -> 3

NewStore ==
    [metrics |-> EmptyDict,
     analysis |-> EmptyDict,
     explain |-> EmptyDict,
     lat_hist |-> EmptyDict,
     score_hist |-> EmptyDict,
     last_seen_by_device |-> EmptyDict,
     connected |-> FALSE,
     last_msg_ts |-> 0,
     events |-> <<>>]

\* ------------------------------------------------------------- on_message

MetricsTopic == <<"wmn", "metrics">>
AnalysisTopic == <<"wmn", "analysis">>
ExplainTopic == <<"wmn", "explain">>
OtherTopic == <<"wmn", "status">>

\* topic.startswith(prefix), on path segments
startswith(topic, prefix) ==
    Len(topic) >= Len(prefix) /\ SubSeq(topic, 1, Len(prefix)) = prefix

\* Mutant of json_loads: text that is not JSON parses to an empty object
json_loads_lenient(raw) ==
    IF raw.kind = "json" THEN [raised |-> FALSE, value |-> raw.value]
    ELSE [raised |-> FALSE, value |-> Obj(EmptyDict)]

\* json.loads(msg.payload.decode("utf-8")): raises on bytes that are not UTF-8 and on
\* text that is not JSON
json_loads(raw) ==
    IF raw.kind = "json" THEN [raised |-> FALSE, value |-> raw.value]
    ELSE [raised |-> TRUE, value |-> Null]

\* Lines 120-122, before the lock is taken: the payload, the device id and the
\* receipt time, or the exception that `except Exception: pass` swallows.
decode_message(msg, clock) ==
    LET parsed == json_loads(msg.payload) IN
    IF parsed.raised \/ ~IsDict(parsed.value)
    THEN [raised |-> TRUE, topic |-> msg.topic, payload |-> Null, device_id |-> "", ts |-> 0]
    ELSE [raised |-> FALSE,
          topic |-> msg.topic,
          payload |-> parsed.value,
          device_id |-> DictGetDefault(parsed.value.f, "device_id", Str("unknown")).s,
          ts |-> clock]

\* Lines 125-127: last_msg_ts, last_seen_by_device, events
\* (an event's own "ts", read from the wall clock for display, is left out)
stamp_message(store, m) ==
    [store EXCEPT
        !.last_msg_ts = m.ts,
        !.last_seen_by_device = DictSet(@, m.device_id, m.ts),
        !.events = deque_appendleft(@, [topic |-> m.topic, device |-> m.device_id], EventsMaxlen)]

TopicKind(topic) ==
    IF startswith(topic, MetricsTopic) THEN "metrics"
    ELSE IF startswith(topic, AnalysisTopic) THEN "analysis"
    ELSE IF startswith(topic, ExplainTopic) THEN "explain"
    ELSE "none"

\* The map of the message's kind is rebuilt with the one entry
store_payload_replaces_map(store, m) ==
    CASE TopicKind(m.topic) = "metrics" -> [store EXCEPT !.metrics = DictSet(EmptyDict, m.device_id, m.payload)]
      [] TopicKind(m.topic) = "analysis" -> [store EXCEPT !.analysis = DictSet(EmptyDict, m.device_id, m.payload)]
      [] TopicKind(m.topic) = "explain" -> [store EXCEPT !.explain = DictSet(EmptyDict, m.device_id, m.payload)]
      [] OTHER -> store

\* Lines 130, 138, 146: the per-kind entry is replaced by the payload
store_payload(store, m) ==
    CASE TopicKind(m.topic) = "metrics" -> [store EXCEPT !.metrics = DictSet(@, m.device_id, m.payload)]
      [] TopicKind(m.topic) = "analysis" -> [store EXCEPT !.analysis = DictSet(@, m.device_id, m.payload)]
      [] TopicKind(m.topic) = "explain" -> [store EXCEPT !.explain = DictSet(@, m.device_id, m.payload)]
      [] OTHER -> store

\* store[hist].setdefault(device_id, deque(maxlen=1200)).append(entry)
hist_append(hists, device_id, entry) ==
    DictSet(hists, device_id,
            deque_append(DictGetDefault(hists, device_id, <<>>), entry, HistMaxlen))

\* Lines 131-135 and 139-143: the sub-field and the history.  mb.get raises
\* AttributeError when the sub-field is present and not an object.
append_history(store, m, clock) ==
    LET kind == TopicKind(m.topic)
        sub == DictGetDefault(m.payload.f, kind, Obj(EmptyDict))
    IN
    IF kind \notin {"metrics", "analysis"} THEN [raised |-> FALSE, store |-> store]
    ELSE IF ~IsDict(sub) THEN [raised |-> TRUE, store |-> store]
    ELSE IF kind = "metrics"
    THEN LET lat == safe_num(DictGet(sub.f, "latency_ms_avg")) IN
         [raised |-> FALSE,
          store |-> IF lat = None THEN store
                    ELSE [store EXCEPT !.lat_hist =
                              hist_append(@, m.device_id, [t |-> clock, lat |-> lat[1]])]]
    ELSE LET sc == safe_num(DictGet(sub.f, "wireless_score_0_100")) IN
         [raised |-> FALSE,
          store |-> IF sc = None THEN store
                    ELSE [store EXCEPT !.score_hist =
                              hist_append(@, m.device_id, [t |-> clock, score |-> sc[1]])]]

\* The whole critical section of on_message, lines 124-146
ingest(store, m, clock) ==
    append_history(store_payload(stamp_message(store, m), m), m, clock).store

\* on_message as one call: lines 118-149
on_message(store, msg, clock) ==
    LET m == decode_message(msg, clock) IN
    IF m.raised THEN store ELSE ingest(store, m, clock)

\* ------------------------------------------------------- snapshot_devices

\* sorted(list(set(a + b + c))) on device ids
RECURSIVE sorted_ids(_)
sorted_ids(S) ==
    IF S = {} THEN <<>>
    ELSE LET first == CHOOSE d \in S : \A e \in S : DevRank(d) <= DevRank(e)
         IN <<first>> \o sorted_ids(S \ {first})

\* Mutant of snapshot_device_list: the keys of the metrics map alone
snapshot_device_list_metrics_only(store) == sorted_ids(DOMAIN store.metrics)

\* Line 195
snapshot_device_list(store) ==
    sorted_ids((DOMAIN store.metrics) \cup (DOMAIN store.analysis) \cup (DOMAIN store.explain))

\* mp.get("metrics", {}) if isinstance(mp, dict) else {}
sub_record(payload, key) ==
    IF IsDict(payload) THEN DictGetDefault(payload.f, key, Obj(EmptyDict)) ELSE Obj(EmptyDict)

\* Lines 213-215: the age in whole seconds and the online flag
age_seconds(last_seen, now_ts) ==
    IF last_seen = Null \/ last_seen = Num(0) THEN None
    ELSE Some((now_ts - last_seen.v) \div TicksPerSec)

is_online(age_s) == age_s # None /\ age_s[1] <= online_grace_s

\* Mutant of health_of: the computed score comes first
health_of_computed_first(analyzer_score, computed) ==
    IF computed # None THEN computed ELSE analyzer_score

\* Lines 209-211
health_of(analyzer_score, computed) ==
    IF analyzer_score # None THEN analyzer_score ELSE computed

\* Lines 199-237: one row; mb.get / ab.get raise when the sub-field is not an object
snapshot_row(store, dev, now_ts) ==
    LET mb == sub_record(DictGetDefault(store.metrics, dev, Obj(EmptyDict)), "metrics")
        ab == sub_record(DictGetDefault(store.analysis, dev, Obj(EmptyDict)), "analysis")
    IN
    IF ~IsDict(mb) \/ ~IsDict(ab) THEN [raised |-> TRUE]
    ELSE LET rssi == safe_num(DictGet(mb.f, "rssi_dbm"))
             lat == safe_num(DictGet(mb.f, "latency_ms_avg"))
             jit == safe_num(DictGet(mb.f, "jitter_ms"))
             loss == safe_num(DictGet(mb.f, "packet_loss_pct"))
             analyzer_score == safe_num(DictGet(ab.f, "wireless_score_0_100"))
             last_seen == IF dev \in DOMAIN store.last_seen_by_device
                          THEN Num(store.last_seen_by_device[dev]) ELSE Null
             age_s == age_seconds(last_seen, now_ts)
         IN [raised |-> FALSE,
             device |-> dev,
             online |-> is_online(age_s),
             last_seen_s |-> age_s,
             health |-> health_of(analyzer_score, compute_score(rssi, lat, jit, loss)),
             rssi_dbm |-> rssi,
             latency_ms |-> lat,
             jitter_ms |-> jit,
             loss_pct |-> loss,
             handover |-> Truthy(DictGet(ab.f, "handover_detected")),
             congestion |-> Truthy(DictGet(ab.f, "congestion_detected"))]

\* Line 241: online first, then health descending with no-health last, then device
row_before(a, b) ==
    IF a.online # b.online THEN a.online
    ELSE IF a.health # b.health
    THEN (a.health # None /\ (b.health = None \/ a.health[1] > b.health[1]))
    ELSE DevRank(a.device) < DevRank(b.device)

RECURSIVE sort_rows(_)
sort_rows(rows) ==
    IF rows = {} THEN <<>>
    ELSE LET first == CHOOSE r \in rows : \A q \in rows \ {r} : row_before(r, q)
         IN <<first>> \o sort_rows(rows \ {first})

\* Mutant of snapshot_devices: the devices that are offline are left out
snapshot_devices_online_only(store, now_ts) ==
    LET devices == snapshot_device_list(store)
        rows == [i \in 1..Len(devices) |-> snapshot_row(store, devices[i], now_ts)]
    IN
    IF \E i \in 1..Len(devices) : rows[i].raised
    THEN [raised |-> TRUE, df |-> <<>>]
    ELSE [raised |-> FALSE, df |-> sort_rows({rows[i] : i \in 1..Len(devices)} \ {q \in {rows[i] : i \in 1..Len(devices)} : ~q.online})]

\* snapshot_devices(), lines 192-242, on the store and the clock it reads
snapshot_devices(store, now_ts) ==
    LET devices == snapshot_device_list(store)
        rows == [i \in 1..Len(devices) |-> snapshot_row(store, devices[i], now_ts)]
    IN
    IF \E i \in 1..Len(devices) : rows[i].raised
    THEN [raised |-> TRUE, df |-> <<>>]
    ELSE [raised |-> FALSE, df |-> sort_rows({rows[i] : i \in 1..Len(devices)})]

\* ------------------------------------------------ compute_latency_anomaly

RECURSIVE seq_sum(_)
seq_sum(s) == IF s = <<>> THEN 0 ELSE Head(s) + seq_sum(Tail(s))

\* sort_values("t"): entries in time order, equal times in arrival order
RECURSIVE sort_by_t(_)
sort_by_t(hist) ==
    IF hist = <<>> THEN <<>>
    ELSE LET i == CHOOSE j \in 1..Len(hist) :
                      \A x \in 1..Len(hist) :
                          hist[j].t < hist[x].t \/ (hist[j].t = hist[x].t /\ j <= x)
         IN <<hist[i]>> \o sort_by_t(SubSeq(hist, 1, i - 1) \o SubSeq(hist, i + 1, Len(hist)))

\* Mutant of compute_latency_anomaly: no test of the history's length; the window is
\* what the history holds, up to z_window samples
compute_latency_anomaly_any_length(store, dev) ==
    LET hist == DictGetDefault(store.lat_hist, dev, <<>>)
        n == Min2(Len(hist), z_window)
    IN
    IF n < 2 THEN [verdict |-> FALSE, dev |-> 0, ssq |-> 0]
    ELSE LET df == sort_by_t(hist)
             win == [i \in 1..n |-> df[Len(df) - n + i].lat]
             total == seq_sum(win)
             ssq == seq_sum([i \in 1..n |-> (n * win[i] - total) * (n * win[i] - total)])
         IN IF ssq = 0 THEN [verdict |-> FALSE, dev |-> 0, ssq |-> 0]
            ELSE [verdict |-> TRUE, dev |-> n * win[n] - total, ssq |-> ssq]

\* Mutant of compute_latency_anomaly: mean and deviation of the whole history, not of
\* its last z_window samples
compute_latency_anomaly_whole_history(store, dev) ==
    LET hist == DictGetDefault(store.lat_hist, dev, <<>>)
        n == Len(hist)
    IN
    IF n < Max2(min_samples, z_window) THEN [verdict |-> FALSE, dev |-> 0, ssq |-> 0]
    ELSE LET df == sort_by_t(hist)
             win == [i \in 1..n |-> df[i].lat]
             total == seq_sum(win)
             ssq == seq_sum([i \in 1..n |-> (n * win[i] - total) * (n * win[i] - total)])
         IN IF ssq = 0 THEN [verdict |-> FALSE, dev |-> 0, ssq |-> 0]
            ELSE [verdict |-> TRUE, dev |-> n * win[n] - total, ssq |-> ssq]

\* Lines 244-255.  z = (last - mu) / sd over the last z_window samples, kept as the
\* integers it is made of: with n = z_window and S the window's sum,
\*   dev = n * last - S  and  ssq = sum of (n * x - S)^2,  z^2 = dev^2 * (n - 1) / ssq.
compute_latency_anomaly(store, dev) ==
    LET hist == DictGetDefault(store.lat_hist, dev, <<>>) IN
    IF Len(hist) < Max2(min_samples, z_window) THEN [verdict |-> FALSE, dev |-> 0, ssq |-> 0]
    ELSE LET df == sort_by_t(hist)
             win == [i \in 1..z_window |-> df[Len(df) - z_window + i].lat]
             total == seq_sum(win)
             ssq == seq_sum([i \in 1..z_window |-> (z_window * win[i] - total) * (z_window * win[i] - total)])
         IN IF ssq = 0 THEN [verdict |-> FALSE, dev |-> 0, ssq |-> 0]
            ELSE [verdict |-> TRUE, dev |-> z_window * win[z_window] - total, ssq |-> ssq]

\* abs(z) >= num / den
abs_z_at_least(z, num, den) ==
    z.dev * z.dev * (z_window - 1) * den * den >= num * num * z.ssq

\* -------------------------------------------------------- build_incidents

Incident(dev, sev, type) == [device |-> dev, sev |-> sev, type |-> type]

\* Lines 267-292: the incidents of a row that is not offline, in the order they are
\* appended
online_row_incidents(store, r) ==
    (IF r.rssi_dbm # None /\ r.rssi_dbm[1] < rssi_bad
     THEN <<Incident(r.device, "warn", "weak_signal")>> ELSE <<>>)
    \o (IF r.latency_ms # None /\ r.latency_ms[1] > lat_warn
        THEN <<Incident(r.device, IF r.latency_ms[1] * 10 > lat_warn * 16 THEN "bad" ELSE "warn", "high_latency")>>
        ELSE <<>>)
    \o (IF r.jitter_ms # None /\ r.jitter_ms[1] > jit_warn
        THEN <<Incident(r.device, IF r.jitter_ms[1] * 10 > jit_warn * 16 THEN "bad" ELSE "warn", "high_jitter")>>
        ELSE <<>>)
    \o (IF r.loss_pct # None /\ r.loss_pct[1] > loss_warn
        THEN <<Incident(r.device, IF r.loss_pct[1] > loss_warn * 2 THEN "bad" ELSE "warn", "packet_loss")>>
        ELSE <<>>)
    \o (IF r.handover THEN <<Incident(r.device, "warn", "handover")>> ELSE <<>>)
    \o (IF r.congestion THEN <<Incident(r.device, "warn", "congestion")>> ELSE <<>>)
    \o (LET z == compute_latency_anomaly(store, r.device) IN
        IF z.verdict /\ abs_z_at_least(z, z_thresh_num, z_thresh_den)
        THEN <<Incident(r.device,
                        IF abs_z_at_least(z, z_thresh_num * 27, z_thresh_den * 20) THEN "bad" ELSE "warn",
                        "latency_anomaly")>>
        ELSE <<>>)

\* Mutant of row_incidents: no `continue` after the offline incident
row_incidents_without_continue(store, r) ==
    (IF r.online = FALSE THEN <<Incident(r.device, "bad", "offline")>> ELSE <<>>)
    \o online_row_incidents(store, r)

\* Lines 262-292: the incidents of one row; an offline row ends at `continue`
row_incidents(store, r) ==
    IF r.online = FALSE THEN <<Incident(r.device, "bad", "offline")>>
    ELSE online_row_incidents(store, r)

RECURSIVE all_row_incidents(_, _)
all_row_incidents(store, df) ==
    IF df = <<>> THEN <<>>
    ELSE row_incidents(store, Head(df)) \o all_row_incidents(store, Tail(df))

\* Mutant of sort_incidents: the incidents are left in the order of generation
sort_incidents_unsorted(incidents) == incidents

\* Line 298: sort_values(by=["sev", "ts"], ascending=[True, False]); every incident of
\* one call carries the same ts, so the order within a severity is the order of
\* generation, and "bad" sorts before "warn"
sort_incidents(incidents) ==
    SelectSeq(incidents, LAMBDA i : i.sev = "bad") \o SelectSeq(incidents, LAMBDA i : i.sev = "warn")

\* build_incidents(df_devices), lines 257-299; lat_hist is read from the live store
build_incidents(store, df) == sort_incidents(all_row_incidents(store, df))

\* ------------------------------------------------------ Ask the Explainer

\* A text is the sequence of its tokens; " " is whitespace.
RECURSIVE lstrip(_)
lstrip(text) == IF text # <<>> /\ Head(text) = " " THEN lstrip(Tail(text)) ELSE text

RECURSIVE rstrip(_)
rstrip(text) ==
    IF text # <<>> /\ text[Len(text)] = " " THEN rstrip(SubSeq(text, 1, Len(text) - 1)) ELSE text

\* str.strip()
strip(text) == rstrip(lstrip(text))

\* Line 546: quick if quick else custom_q.strip()
question_to_use(quick, custom_q) == IF quick # None THEN quick[1] ELSE strip(custom_q)

\* Lines 551-557: the JSON body of the POST to /explain
explain_payload(dev, m, a) ==
    [analysis |-> [device_id |-> dev, raw |-> m, analysis |-> a]]

\* ----------------------------------------------------------------- inputs

List == [k |-> "list"]

\* The keys of rec that carry a value, as a Python dict
DictOf(rec) == [x \in {y \in DOMAIN rec : rec[y] # Missing} |-> rec[x]]

RawUndecodable == [kind |-> "undecodable", value |-> Null]
RawInvalidJson == [kind |-> "invalid_json", value |-> Null]
RawJson(value) == [kind |-> "json", value |-> value]

Message(topic, raw) == [topic |-> topic, payload |-> raw]

MetricsFields(rssi, lat, jit, loss) ==
    Obj(DictOf([rssi_dbm |-> rssi, latency_ms_avg |-> lat, jitter_ms |-> jit, packet_loss_pct |-> loss]))

AnalysisFields(score, handover, congestion) ==
    Obj(DictOf([wireless_score_0_100 |-> score, handover_detected |-> handover,
                congestion_detected |-> congestion]))

\* {"device_id": dev, "metrics": metrics, "analysis": analysis}, a key left out when Missing
PayloadOf(dev, metrics, analysis) ==
    RawJson(Obj(DictOf([device_id |-> dev, metrics |-> metrics, analysis |-> analysis])))

\* Payloads that are not a JSON object
BadMessages ==
    {Message(MetricsTopic, RawUndecodable),
     Message(MetricsTopic, RawInvalidJson),
     Message(AnalysisTopic, RawJson(List))}

\* What the sequential specification's broker delivers
DecodeMessages ==
    BadMessages \cup
    {Message(MetricsTopic, PayloadOf(Str("d1"), MetricsFields(Num(-85), Num(40), Num(5), Num(0)), Missing)),
     Message(MetricsTopic, PayloadOf(Str("d1"), Missing, Missing)),
     Message(MetricsTopic, PayloadOf(Str("d2"), Null, Missing)),
     Message(AnalysisTopic, PayloadOf(Str("d1"), Missing, AnalysisFields(Num(92), Bool(TRUE), Missing))),
     Message(AnalysisTopic, PayloadOf(Str("d2"), Missing, Str("n/a"))),
     Message(ExplainTopic, PayloadOf(Missing, Missing, Missing)),
     Message(OtherTopic, PayloadOf(Str("d1"), MetricsFields(Missing, Num(10), Missing, Missing), Missing))}

\* What the history specification's broker delivers
HistMessages ==
    {Message(MetricsTopic, PayloadOf(Str("d1"), MetricsFields(Missing, Num(10), Missing, Missing), Missing)),
     Message(MetricsTopic, PayloadOf(Str("d1"), MetricsFields(Missing, Num(50), Missing, Missing), Missing)),
     Message(MetricsTopic, PayloadOf(Str("d1"), MetricsFields(Num(-50), Str("n/a"), Missing, Missing), Missing)),
     Message(MetricsTopic, PayloadOf(Str("d2"), MetricsFields(Missing, Num(10), Missing, Missing), Missing)),
     Message(AnalysisTopic, PayloadOf(Str("d1"), Missing, AnalysisFields(Num(92), Missing, Missing)))}

\* What the threaded specification's broker delivers
ConcMessages ==
    BadMessages \cup
    {Message(MetricsTopic, PayloadOf(Str("d1"), MetricsFields(Missing, Num(10), Missing, Missing), Missing)),
     Message(MetricsTopic, PayloadOf(Str("d1"), Null, Missing))}

\* The messages of the lock's specification: one that is ingested, one whose
\* critical section raises
LockMessages ==
    {Message(MetricsTopic, PayloadOf(Str("d1"), MetricsFields(Missing, Num(10), Missing, Missing), Missing)),
     Message(MetricsTopic, PayloadOf(Str("d1"), Null, Missing))}

\* What the anomaly specification's broker delivers: latency samples
AnomMessages ==
    {Message(MetricsTopic, PayloadOf(Str("d1"), MetricsFields(Missing, Num(10), Missing, Missing), Missing)),
     Message(MetricsTopic, PayloadOf(Str("d1"), MetricsFields(Missing, Num(50), Missing, Missing), Missing)),
     Message(MetricsTopic, PayloadOf(Str("d2"), MetricsFields(Missing, Num(10), Missing, Missing), Missing))}

\* What the frame specification's broker delivers: records of each kind, with and
\* without the sample their history takes, and a latency that is the JSON value true
FrameMessages ==
    {Message(MetricsTopic, PayloadOf(Str("d1"), MetricsFields(Num(-50), Num(10), Missing, Missing), Missing)),
     Message(MetricsTopic, PayloadOf(Str("d1"), MetricsFields(Missing, Missing, Num(5), Missing), Missing)),
     Message(MetricsTopic, PayloadOf(Str("d1"), MetricsFields(Missing, Bool(TRUE), Missing, Missing), Missing)),
     Message(MetricsTopic, PayloadOf(Str("d2"), MetricsFields(Missing, Num(10), Missing, Missing), Missing)),
     Message(AnalysisTopic, PayloadOf(Str("d1"), Missing, AnalysisFields(Num(92), Missing, Missing))),
     Message(AnalysisTopic, PayloadOf(Str("d1"), Missing, AnalysisFields(Missing, Bool(TRUE), Missing))),
     Message(ExplainTopic, PayloadOf(Str("d1"), Missing, Missing))}

\* What the explainer specification's broker delivers
AskMessages ==
    {Message(MetricsTopic, PayloadOf(Str("d1"), MetricsFields(Num(-85), Num(40), Num(5), Num(0)), Missing)),
     Message(MetricsTopic, PayloadOf(Str("d2"), MetricsFields(Missing, Num(10), Missing, Missing), Missing)),
     Message(AnalysisTopic, PayloadOf(Str("d1"), Missing, AnalysisFields(Num(92), Missing, Missing)))}

\* Lines 519-528: no quick-diagnostic button pressed, or the text of the one pressed
QuickChoices ==
    {None,
     Some(<<"Explain why the wireless score is low.">>),
     Some(<<"Assess congestion likelihood from telemetry.">>),
     Some(<<"Assess signal strength stability.">>)}

\* Lines 532-535: what the text input holds
CustomTexts == {<<>>, <<" ", "Why is d1 slow?", " ">>}

\* What the health specification's broker delivers: readings that compute to 65,
\* readings whose penalties add up to 150, and analyzer scores inside, above and
\* below 0..100
HealthMessages ==
    {Message(MetricsTopic, PayloadOf(Str("d1"), MetricsFields(Num(-85), Num(40), Num(5), Num(0)), Missing)),
     Message(MetricsTopic, PayloadOf(Str("d1"), MetricsFields(Num(-95), Num(300), Num(80), Num(10)), Missing)),
     Message(MetricsTopic, PayloadOf(Str("d2"), MetricsFields(Missing, Missing, Missing, Missing), Missing)),
     Message(AnalysisTopic, PayloadOf(Str("d1"), Missing, AnalysisFields(Num(92), Missing, Missing))),
     Message(AnalysisTopic, PayloadOf(Str("d1"), Missing, AnalysisFields(Num(150), Missing, Missing))),
     Message(AnalysisTopic, PayloadOf(Str("d2"), Missing, AnalysisFields(Num(-5), Missing, Missing)))}

\* What the incident specification's broker delivers: readings of d1 that compute to
\* 40 with a weak signal, an analyzer score for d1, and a score with a handover for d2
IncMessages ==
    {Message(MetricsTopic, PayloadOf(Str("d1"), MetricsFields(Num(-85), Num(130), Num(5), Num(0)), Missing)),
     Message(AnalysisTopic, PayloadOf(Str("d1"), Missing, AnalysisFields(Num(92), Missing, Missing))),
     Message(AnalysisTopic, PayloadOf(Str("d2"), Missing, AnalysisFields(Num(92), Bool(TRUE), Missing)))}

\* The readings the scoring specification draws from: absent, 0, and both sides of
\* every tier bound
ScoreRssi == {Missing, Num(0), Num(-60), Num(-61), Num(-70), Num(-71), Num(-80), Num(-81), Num(-85)}
ScoreLatency == {Missing, Num(0), Num(40), Num(60), Num(61), Num(120), Num(121), Num(200), Num(201)}
ScoreJitter == {Missing, Num(0), Num(5), Num(15), Num(16), Num(35), Num(36), Num(60), Num(61)}
ScoreLoss == {Missing, Num(0), Num(1), Num(2), Num(3), Num(4), Num(6), Num(7)}

ScoreMessages ==
    {Message(MetricsTopic, PayloadOf(Str("d1"), MetricsFields(r, l, j, p), Missing)) :
        r \in ScoreRssi, l \in ScoreLatency, j \in ScoreJitter, p \in ScoreLoss}

\* ------------------------------------------------------------------ state

Writers == {"w1", "w2"}
Readers == {"r1"}
Free == "free"

VARIABLES
    data,       \* the store init_mqtt builds, without its lock
    lock,       \* store["lock"]: Free or the thread holding it
    now,        \* the clock time.time() reads, in ticks
    link,       \* the broker connection: "down" or "up"
    nmsgs,      \* messages delivered so far
    wpc,        \* where each callback thread is
    wmsg,       \* the msg argument of each thread's on_message call
    wm,         \* payload, device_id and ts of that call (decode_message)
    wraised,    \* the critical section of that call raised
    wout,       \* how each thread's last two on_message calls ended, in order
    rpc,        \* where each script run is
    rsnap,      \* df_devices of each script run
    rbase,      \* the store as that snapshot_devices call read it
    rprev,      \* df_devices of the script run before, while no on_message call came between
    rfresh,     \* no on_message call since the snapshot was taken
    rinc,       \* what the build_incidents calls of the script run returned
    rview,      \* the device tab's reads
    revents,    \* the Ops tab's read of the event stream
    rpost,      \* the request the script run posted to the explanation service
    committed,  \* the store as the last finished callback left it
    arrivals,   \* every numeric sample accepted, per history and device, in arrival order
    ingested    \* the device ids of the metrics, analysis and explain messages ingested

wvars == <<wpc, wmsg, wm, wraised, wout>>
rvars == <<rpc, rsnap, rbase, rprev, rfresh, rinc, rview, revents, rpost>>
gvars == <<committed, arrivals, ingested>>
vars == <<data, lock, now, link, nmsgs, wpc, wmsg, wm, wraised, wout, rpc, rsnap, rbase, rprev,
          rfresh, rinc, rview, revents, rpost, committed, arrivals, ingested>>

NoRawMessage == Message(<<>>, RawUndecodable)
NoMessage == [raised |-> TRUE, topic |-> <<>>, payload |-> Null, device_id |-> "", ts |-> 0]
NoSnapshot == [taken |-> FALSE, raised |-> FALSE, df |-> <<>>, now_ts |-> 0]
NoView == [dev |-> "", mp |-> Null, ap |-> Null, ep |-> Null]
NoArrivals == [lat |-> EmptyDict, score |-> EmptyDict]
NoPost == [posted |-> FALSE, quick |-> None, custom_q |-> <<>>, payload |-> EmptyDict]

Init ==
    /\ data = NewStore
    /\ lock = Free
    /\ now = 1
    /\ link = "down"
    /\ nmsgs = 0
    /\ wpc = [w \in Writers |-> "idle"]
    /\ wmsg = [w \in Writers |-> NoRawMessage]
    /\ wm = [w \in Writers |-> NoMessage]
    /\ wraised = [w \in Writers |-> FALSE]
    /\ wout = [w \in Writers |-> <<>>]
    /\ rpc = [r \in Readers |-> "idle"]
    /\ rsnap = [r \in Readers |-> NoSnapshot]
    /\ rbase = [r \in Readers |-> NewStore]
    /\ rprev = [r \in Readers |-> NoSnapshot]
    /\ rfresh = [r \in Readers |-> FALSE]
    /\ rinc = [r \in Readers |-> <<>>]
    /\ rview = [r \in Readers |-> NoView]
    /\ revents = [r \in Readers |-> <<>>]
    /\ rpost = [r \in Readers |-> NoPost]
    /\ committed = NewStore
    /\ arrivals = NoArrivals
    /\ ingested = {}

\* The clock advances
Tick ==
    /\ now < MaxTime
    /\ now' = now + 1
    /\ UNCHANGED <<data, lock, link, nmsgs, wvars, rvars, gvars>>

\* ---------------------------------------------- what the messages carried

\* The payload is a JSON object
IsRecord(msg) == msg.payload.kind = "json" /\ msg.payload.value.k = "obj"

DeviceOf(msg) ==
    IF "device_id" \in DOMAIN msg.payload.value.f THEN msg.payload.value.f["device_id"].s ELSE "unknown"

InNamespace(msg) ==
    \E prefix \in {MetricsTopic, AnalysisTopic, ExplainTopic} :
        Len(msg.topic) >= 2 /\ msg.topic[1] = prefix[1] /\ msg.topic[2] = prefix[2]

\* The numeric sample a message adds to a history, read off the message itself
SampleOf(msg, topic, kind, field) ==
    IF ~IsRecord(msg) \/ Len(msg.topic) < 2 \/ msg.topic[2] # topic[2] THEN None
    ELSE LET p == msg.payload.value.f IN
         IF kind \notin DOMAIN p \/ p[kind].k # "obj" \/ field \notin DOMAIN p[kind].f THEN None
         ELSE LET x == p[kind].f[field] IN
              IF x.k = "num" THEN Some(x.v) ELSE None

Arrived(arr, dev, sample) ==
    IF sample = None THEN arr
    ELSE DictSet(arr, dev, Append(DictGetDefault(arr, dev, <<>>), sample[1]))

ArrivalsAfter(arr, msg) ==
    IF ~IsRecord(msg) THEN arr
    ELSE [lat |-> Arrived(arr.lat, DeviceOf(msg), SampleOf(msg, MetricsTopic, "metrics", "latency_ms_avg")),
          score |-> Arrived(arr.score, DeviceOf(msg),
                            SampleOf(msg, AnalysisTopic, "analysis", "wireless_score_0_100"))]

IngestedAfter(ids, msg) ==
    IF IsRecord(msg) /\ InNamespace(msg) THEN ids \cup {DeviceOf(msg)} ELSE ids

\* The outcomes `outs` of a thread's calls after one more, the last two of them kept
Outcome(outs, o) == IF Len(outs) < 2 THEN Append(outs, o) ELSE <<outs[2], o>>

\* ------------------------------------------- whole calls, one at a time

\* on_message(client, userdata, msg) from start to end, `elapsed` ticks after the
\* step before
CallOnMessage(msgs, cap, elapsed) ==
    /\ nmsgs < cap
    /\ now' = now + elapsed
    /\ \E msg \in msgs :
        LET m == decode_message(msg, now') IN
        /\ wmsg' = [wmsg EXCEPT !["w1"] = msg]
        /\ wm' = [wm EXCEPT !["w1"] = m]
        /\ data' = on_message(data, msg, now')
        /\ wraised' = [wraised EXCEPT !["w1"] =
                          ~m.raised /\ append_history(store_payload(stamp_message(data, m), m), m, now').raised]
        /\ wout' = [wout EXCEPT !["w1"] =
                       Outcome(@, IF m.raised THEN "discarded"
                                  ELSE IF wraised'["w1"] THEN "raised" ELSE "ingested")]
        /\ arrivals' = ArrivalsAfter(arrivals, msg)
        /\ ingested' = IngestedAfter(ingested, msg)
    /\ nmsgs' = nmsgs + 1
    /\ committed' = data'
    /\ rfresh' = [r \in Readers |-> FALSE]
    /\ rprev' = [r \in Readers |-> NoSnapshot]
    /\ UNCHANGED <<lock, link, wpc, rpc, rsnap, rbase, rinc, rview, revents, rpost>>

\* df_devices = snapshot_devices(), line 301, at the start of a script run
CallSnapshot ==
    /\ rprev' = [rprev EXCEPT !["r1"] = IF rfresh["r1"] THEN rsnap["r1"] ELSE NoSnapshot]
    /\ rsnap' = [rsnap EXCEPT !["r1"] =
                    [taken |-> TRUE,
                     raised |-> snapshot_devices(data, now).raised,
                     df |-> snapshot_devices(data, now).df,
                     now_ts |-> now]]
    /\ rbase' = [rbase EXCEPT !["r1"] = data]
    /\ rfresh' = [rfresh EXCEPT !["r1"] = TRUE]
    /\ rinc' = [rinc EXCEPT !["r1"] = <<>>]
    /\ UNCHANGED <<data, lock, now, link, nmsgs, wvars, rpc, rview, revents, gvars, rpost>>

\* build_incidents(df_devices), lines 350 and 598: twice in a script run
CallBuildIncidents ==
    /\ rsnap["r1"].taken
    /\ ~rsnap["r1"].raised
    /\ rsnap["r1"].df # <<>>
    /\ Len(rinc["r1"]) < 2
    /\ rinc' = [rinc EXCEPT !["r1"] = Append(@, build_incidents(data, rsnap["r1"].df))]
    /\ UNCHANGED <<data, lock, now, link, nmsgs, wvars, rpc, rsnap, rbase, rprev, rfresh, rview,
                   revents, gvars, rpost>>

\* Lines 440-561 of a script run in which a quick-diagnostic button or "Run
\* Diagnostic" was pressed: the selected device, its records, and the POST.  A run
\* whose m.get or a.get raises (lines 450-454) posts nothing.
CallAskExplainer ==
    /\ rsnap["r1"].taken
    /\ ~rsnap["r1"].raised
    /\ rsnap["r1"].df # <<>>
    /\ \E i \in 1..Len(rsnap["r1"].df), quick \in QuickChoices, custom_q \in CustomTexts,
          submit \in BOOLEAN :
        LET dev == rsnap["r1"].df[i].device
            mp == DictGetDefault(data.metrics, dev, Obj(EmptyDict))
            ap == DictGetDefault(data.analysis, dev, Obj(EmptyDict))
            ep == DictGetDefault(data.explain, dev, Obj(EmptyDict))
            m == sub_record(mp, "metrics")
            a == sub_record(ap, "analysis")
        IN /\ IsDict(m) /\ IsDict(a)
           /\ submit \/ quick # None
           /\ rview' = [rview EXCEPT !["r1"] = [dev |-> dev, mp |-> mp, ap |-> ap, ep |-> ep]]
           /\ rpost' = [rpost EXCEPT !["r1"] =
                           [posted |-> TRUE, quick |-> quick, custom_q |-> custom_q,
                            payload |-> explain_payload(dev, m, a)]]
    /\ UNCHANGED <<data, lock, now, link, nmsgs, wvars, rpc, rsnap, rbase, rprev, rfresh, rinc,
                   revents, gvars>>

SeqOnMessage == CallOnMessage(DecodeMessages, MaxMsgs, 0)

SeqNext == SeqOnMessage \/ CallSnapshot \/ CallBuildIncidents \/ Tick

SeqSpec == Init /\ [][SeqNext]_vars

\* Each message arrives one tick after the step before it
HistOnMessage == CallOnMessage(HistMessages, MaxHistMsgs, 1)

HistNext == HistOnMessage

HistSpec == Init /\ [][HistNext]_vars

\* Each latency sample arrives one tick after the step before it
AnomOnMessage == CallOnMessage(AnomMessages, MaxAnomMsgs, 1)

AnomNext == AnomOnMessage \/ CallSnapshot \/ CallBuildIncidents

AnomSpec == Init /\ [][AnomNext]_vars

\* Each message arrives one tick after the one before it
FrameOnMessage == CallOnMessage(FrameMessages, MaxFrameMsgs, 1)

FrameNext == FrameOnMessage

FrameSpec == Init /\ [][FrameNext]_vars

AskOnMessage == CallOnMessage(AskMessages, MaxAskMsgs, 0)

AskNext == AskOnMessage \/ CallSnapshot \/ CallAskExplainer

AskSpec == Init /\ [][AskNext]_vars

HealthOnMessage == CallOnMessage(HealthMessages, MaxHealthMsgs, 0)

HealthNext == HealthOnMessage \/ CallSnapshot

HealthSpec == Init /\ [][HealthNext]_vars

IncOnMessage == CallOnMessage(IncMessages, MaxIncMsgs, 0)

IncNext == IncOnMessage \/ CallSnapshot \/ CallBuildIncidents \/ Tick

IncSpec == Init /\ [][IncNext]_vars

\* The scoring specification starts after one on_message call, on a metrics message
\* of d1 with any of the readings of ScoreMessages
ScoreInit ==
    \E msg \in ScoreMessages :
        /\ data = on_message(NewStore, msg, 1)
        /\ committed = on_message(NewStore, msg, 1)
        /\ arrivals = ArrivalsAfter(NoArrivals, msg)
        /\ ingested = IngestedAfter({}, msg)
        /\ wmsg = [w \in Writers |-> IF w = "w1" THEN msg ELSE NoRawMessage]
        /\ wm = [w \in Writers |-> IF w = "w1" THEN decode_message(msg, 1) ELSE NoMessage]
        /\ wout = [w \in Writers |-> IF w = "w1" THEN <<"ingested">> ELSE <<>>]
        /\ nmsgs = 1
        /\ lock = Free
        /\ now = 1
        /\ link = "down"
        /\ wpc = [w \in Writers |-> "idle"]
        /\ wraised = [w \in Writers |-> FALSE]
        /\ rpc = [r \in Readers |-> "idle"]
        /\ rsnap = [r \in Readers |-> NoSnapshot]
        /\ rbase = [r \in Readers |-> NewStore]
        /\ rprev = [r \in Readers |-> NoSnapshot]
        /\ rfresh = [r \in Readers |-> FALSE]
        /\ rinc = [r \in Readers |-> <<>>]
        /\ rview = [r \in Readers |-> NoView]
        /\ revents = [r \in Readers |-> <<>>]
    /\ rpost = [r \in Readers |-> NoPost]

ScoreNext == CallSnapshot

ScoreSpec == ScoreInit /\ [][ScoreNext]_vars

\* ------------------------------------------------------------------- lock

\* Mutant of lock_acquirable: the lock does not exclude
lock_never_blocks(l) == TRUE

\* threading.Lock: `with lock` blocks until no thread holds it
lock_acquirable(l) == l = Free

\* Mutant of lock_exit: an exception in the body leaves the lock held
lock_exit_leaks(l, raised) == IF raised THEN l ELSE Free

\* `with lock` releases the lock when its body ends, by an exception too
lock_exit(l, raised) == Free

\* ------------------------------------------------- the callback threads

\* The connection comes up and the client calls on_connect
LinkUp(w) ==
    /\ link = "down"
    /\ wpc[w] = "idle"
    /\ link' = "up"
    /\ wpc' = [wpc EXCEPT ![w] = "conn_lock"]
    /\ UNCHANGED <<data, lock, now, nmsgs, wmsg, wm, wraised, wout, rvars, gvars>>

\* The connection is lost; the client reconnects on its own
LinkDown ==
    /\ link = "up"
    /\ link' = "down"
    /\ UNCHANGED <<data, lock, now, nmsgs, wvars, rvars, gvars>>

\* Line 113
ConnAcquire(w) ==
    /\ wpc[w] = "conn_lock"
    /\ lock_acquirable(lock)
    /\ lock' = w
    /\ wpc' = [wpc EXCEPT ![w] = "conn_set"]
    /\ UNCHANGED <<data, now, link, nmsgs, wmsg, wm, wraised, wout, rvars, gvars>>

\* Line 114
ConnSet(w) ==
    /\ wpc[w] = "conn_set"
    /\ data' = [data EXCEPT !.connected = TRUE]
    /\ wpc' = [wpc EXCEPT ![w] = "conn_exit"]
    /\ UNCHANGED <<lock, now, link, nmsgs, wmsg, wm, wraised, wout, rvars, gvars>>

\* The end of `with lock`, then the subscriptions of lines 115-116
ConnExit(w) ==
    /\ wpc[w] = "conn_exit"
    /\ lock' = lock_exit(lock, FALSE)
    /\ wpc' = [wpc EXCEPT ![w] = "idle"]
    /\ committed' = data
    /\ UNCHANGED <<data, now, link, nmsgs, wmsg, wm, wraised, wout, rvars, arrivals, ingested>>

\* The client calls on_message with a message of the broker, one of `msgs`, at most
\* `cap` of them in a behaviour, each `elapsed` ticks after the one before
DeliverFrom(w, msgs, cap, elapsed) ==
    /\ wpc[w] = "idle"
    /\ link = "up"
    /\ nmsgs < cap
    /\ \E msg \in msgs : wmsg' = [wmsg EXCEPT ![w] = msg]
    /\ nmsgs' = nmsgs + 1
    /\ now' = now + elapsed
    /\ wpc' = [wpc EXCEPT ![w] = "decode"]
    /\ UNCHANGED <<data, lock, link, wm, wraised, wout, rvars, gvars>>

Deliver(w) == DeliverFrom(w, ConcMessages, MaxConcMsgs, 1)

\* Lines 120-122: an exception here ends the call in `except Exception: pass`
Decode(w) ==
    /\ wpc[w] = "decode"
    /\ LET m == decode_message(wmsg[w], now) IN
        /\ wm' = [wm EXCEPT ![w] = IF m.raised THEN NoMessage ELSE m]
        /\ wmsg' = [wmsg EXCEPT ![w] = IF m.raised THEN NoRawMessage ELSE @]
        /\ wpc' = [wpc EXCEPT ![w] = IF m.raised THEN "idle" ELSE "lock"]
        /\ wout' = [wout EXCEPT ![w] = IF m.raised THEN Outcome(@, "discarded") ELSE @]
    /\ UNCHANGED <<data, lock, now, link, nmsgs, wraised, rvars, gvars>>

\* Line 124
MsgAcquire(w) ==
    /\ wpc[w] = "lock"
    /\ lock_acquirable(lock)
    /\ lock' = w
    /\ wpc' = [wpc EXCEPT ![w] = "stamp"]
    /\ UNCHANGED <<data, now, link, nmsgs, wmsg, wm, wraised, wout, rvars, gvars>>

\* Lines 125-127
MsgStamp(w) ==
    /\ wpc[w] = "stamp"
    /\ data' = stamp_message(data, wm[w])
    /\ wpc' = [wpc EXCEPT ![w] = "store"]
    /\ UNCHANGED <<lock, now, link, nmsgs, wmsg, wm, wraised, wout, rvars, gvars>>

\* Lines 130, 138, 146
MsgStore(w) ==
    /\ wpc[w] = "store"
    /\ data' = store_payload(data, wm[w])
    /\ wpc' = [wpc EXCEPT ![w] = "history"]
    /\ UNCHANGED <<lock, now, link, nmsgs, wmsg, wm, wraised, wout, rvars, gvars>>

\* Lines 131-135, 139-143
MsgHistory(w) ==
    /\ wpc[w] = "history"
    /\ data' = append_history(data, wm[w], now).store
    /\ wraised' = [wraised EXCEPT ![w] = append_history(data, wm[w], now).raised]
    /\ wpc' = [wpc EXCEPT ![w] = "exit"]
    /\ UNCHANGED <<lock, now, link, nmsgs, wmsg, wm, wout, rvars, gvars>>

\* The end of `with lock`, and of the call: an exception of the body is swallowed
MsgExit(w) ==
    /\ wpc[w] = "exit"
    /\ lock' = lock_exit(lock, wraised[w])
    /\ wpc' = [wpc EXCEPT ![w] = "idle"]
    /\ wout' = [wout EXCEPT ![w] = Outcome(@, IF wraised[w] THEN "raised" ELSE "ingested")]
    /\ wraised' = [wraised EXCEPT ![w] = FALSE]
    /\ committed' = data
    /\ arrivals' = ArrivalsAfter(arrivals, wmsg[w])
    /\ ingested' = IngestedAfter(ingested, wmsg[w])
    /\ wmsg' = [wmsg EXCEPT ![w] = NoRawMessage]
    /\ wm' = [wm EXCEPT ![w] = NoMessage]
    /\ UNCHANGED <<data, now, link, nmsgs, rvars>>

\* ------------------------------------------------------ the script runs

\* st.rerun(): the script starts again from the top
Rerun(r) ==
    /\ rpc[r] = "idle"
    /\ rpc' = [rpc EXCEPT ![r] = "snapshot"]
    /\ UNCHANGED <<data, lock, now, link, nmsgs, wvars, rsnap, rbase, rprev, rfresh, rinc, rview,
                   revents, gvars, rpost>>

\* Line 194
SnapAcquire(r) ==
    /\ rpc[r] = "snapshot"
    /\ lock_acquirable(lock)
    /\ lock' = r
    /\ rpc' = [rpc EXCEPT ![r] = "snap_body"]
    /\ UNCHANGED <<data, now, link, nmsgs, wvars, rsnap, rbase, rprev, rfresh, rinc, rview, revents, gvars, rpost>>

\* Lines 195-242
SnapBody(r) ==
    /\ rpc[r] = "snap_body"
    /\ rsnap' = [rsnap EXCEPT ![r] =
                    [taken |-> TRUE,
                     raised |-> snapshot_devices(data, now).raised,
                     df |-> snapshot_devices(data, now).df,
                     now_ts |-> now]]
    /\ rbase' = [rbase EXCEPT ![r] = data]
    /\ rpc' = [rpc EXCEPT ![r] = "snap_exit"]
    /\ UNCHANGED <<data, lock, now, link, nmsgs, wvars, rprev, rfresh, rinc, rview, revents, gvars, rpost>>

\* The end of `with lock`; an exception of the body ends the script run, and the
\* run's variables with it
SnapExit(r) ==
    /\ rpc[r] = "snap_exit"
    /\ lock' = lock_exit(lock, rsnap[r].raised)
    /\ rpc' = [rpc EXCEPT ![r] = IF rsnap[r].raised THEN "idle"
                                 ELSE IF rsnap[r].df = <<>> THEN "tab_ops" ELSE "tab_device"]
    /\ rsnap' = [rsnap EXCEPT ![r] = IF rsnap[r].raised THEN NoSnapshot ELSE @]
    /\ rbase' = [rbase EXCEPT ![r] = IF rsnap[r].raised THEN NewStore ELSE @]
    /\ UNCHANGED <<data, now, link, nmsgs, wvars, rprev, rfresh, rinc, rview, revents, gvars, rpost>>

\* Lines 440-443: the selected device, and its metrics payload
ViewMetrics(r) ==
    /\ rpc[r] = "tab_device"
    /\ \E i \in 1..Len(rsnap[r].df) :
        rview' = [rview EXCEPT ![r] =
                     [dev |-> rsnap[r].df[i].device,
                      mp |-> DictGetDefault(data.metrics, rsnap[r].df[i].device, Obj(EmptyDict)),
                      ap |-> Null,
                      ep |-> Null]]
    /\ rpc' = [rpc EXCEPT ![r] = "read_analysis"]
    /\ UNCHANGED <<data, lock, now, link, nmsgs, wvars, rsnap, rbase, rprev, rfresh, rinc, revents, gvars, rpost>>

\* Line 444
ViewAnalysis(r) ==
    /\ rpc[r] = "read_analysis"
    /\ rview' = [rview EXCEPT ![r].ap = DictGetDefault(data.analysis, rview[r].dev, Obj(EmptyDict))]
    /\ rpc' = [rpc EXCEPT ![r] = "read_explain"]
    /\ UNCHANGED <<data, lock, now, link, nmsgs, wvars, rsnap, rbase, rprev, rfresh, rinc, revents, gvars, rpost>>

\* Line 445
ViewExplain(r) ==
    /\ rpc[r] = "read_explain"
    /\ rview' = [rview EXCEPT ![r].ep = DictGetDefault(data.explain, rview[r].dev, Obj(EmptyDict))]
    /\ rpc' = [rpc EXCEPT ![r] = "tab_ops"]
    /\ UNCHANGED <<data, lock, now, link, nmsgs, wvars, rsnap, rbase, rprev, rfresh, rinc, revents, gvars, rpost>>

\* Line 635
OpsAcquire(r) ==
    /\ rpc[r] = "tab_ops"
    /\ lock_acquirable(lock)
    /\ lock' = r
    /\ rpc' = [rpc EXCEPT ![r] = "ops_body"]
    /\ UNCHANGED <<data, now, link, nmsgs, wvars, rsnap, rbase, rprev, rfresh, rinc, rview, revents, gvars, rpost>>

\* Line 636: list(data["events"])[:200]
OpsBody(r) ==
    /\ rpc[r] = "ops_body"
    /\ revents' = [revents EXCEPT ![r] = SubSeq(data.events, 1, Min2(200, Len(data.events)))]
    /\ rpc' = [rpc EXCEPT ![r] = "ops_exit"]
    /\ UNCHANGED <<data, lock, now, link, nmsgs, wvars, rsnap, rbase, rprev, rfresh, rinc, rview, gvars, rpost>>

\* The end of `with lock`; the script run ends, and sleeps until the next one
OpsExit(r) ==
    /\ rpc[r] = "ops_exit"
    /\ lock' = lock_exit(lock, FALSE)
    /\ rpc' = [rpc EXCEPT ![r] = "idle"]
    /\ rsnap' = [rsnap EXCEPT ![r] = NoSnapshot]
    /\ rbase' = [rbase EXCEPT ![r] = NewStore]
    /\ rview' = [rview EXCEPT ![r] = NoView]
    /\ revents' = [revents EXCEPT ![r] = <<>>]
    /\ UNCHANGED <<data, now, link, nmsgs, wvars, rprev, rfresh, rinc, gvars, rpost>>

\* The steps of a thread that wait for the lock, and its other steps
WriterAcquire(w) == ConnAcquire(w) \/ MsgAcquire(w)
WriterStep(w) ==
    \/ LinkUp(w) \/ ConnSet(w) \/ ConnExit(w)
    \/ Deliver(w) \/ Decode(w) \/ MsgStamp(w) \/ MsgStore(w) \/ MsgHistory(w) \/ MsgExit(w)
ReaderAcquire(r) == SnapAcquire(r) \/ OpsAcquire(r)
ReaderStep(r) ==
    \/ Rerun(r) \/ SnapBody(r) \/ SnapExit(r)
    \/ ViewMetrics(r) \/ ViewAnalysis(r) \/ ViewExplain(r)
    \/ OpsBody(r) \/ OpsExit(r)

Next ==
    \/ \E w \in Writers : WriterAcquire(w) \/ WriterStep(w)
    \/ \E r \in Readers : ReaderAcquire(r) \/ ReaderStep(r)
    \/ LinkDown

Spec == Init /\ [][Next]_vars

\* The steps of a callback thread on the messages of LockMessages
LockWriterStep(w) ==
    \/ LinkUp(w) \/ ConnSet(w) \/ ConnExit(w)
    \/ DeliverFrom(w, LockMessages, MaxLockMsgs, 0)
    \/ Decode(w) \/ MsgStamp(w) \/ MsgStore(w) \/ MsgHistory(w) \/ MsgExit(w)

LockNext ==
    \/ \E w \in Writers : WriterAcquire(w) \/ LockWriterStep(w)
    \/ \E r \in Readers : ReaderAcquire(r) \/ ReaderStep(r)

\* A thread that can take a step takes one; a thread at `with lock` gets the lock
\* when it is free again and again
FairSpec ==
    /\ Init
    /\ [][LockNext]_vars
    /\ \A w \in Writers : WF_vars(LockWriterStep(w)) /\ SF_vars(WriterAcquire(w))
    /\ \A r \in Readers : WF_vars(ReaderStep(r)) /\ SF_vars(ReaderAcquire(r))

\* ----------------------------------------------------------------- claims

Threads == Writers \cup Readers

KeysOf(store) == (DOMAIN store.metrics) \cup (DOMAIN store.analysis) \cup (DOMAIN store.explain)

DevicesOf(df) == {df[i].device : i \in 1..Len(df)}

\* C1: a snapshot_devices() call reads the store as a finished callback left it: with
\* every update of each message ingested so far (map entry, history, LastSeen), and
\* no update of a message whose critical section has not ended.
C1_SnapshotSeesWholeMessages ==
    \A r \in Readers :
        rpc[r] = "snap_exit" =>
            /\ rbase[r] = committed
            /\ rsnap[r].raised = snapshot_devices(committed, rsnap[r].now_ts).raised
            /\ rsnap[r].df = snapshot_devices(committed, rsnap[r].now_ts).df

\* A snapshot is taken while a callback waits for the lock, after a metrics message
\* with a latency was ingested.
C1_Witness ==
    \E r \in Readers, w \in Writers :
        /\ rpc[r] = "snap_exit"
        /\ wpc[w] = "lock"
        /\ "d1" \in DOMAIN rbase[r].lat_hist
        /\ "d1" \in DOMAIN rbase[r].metrics

\* C2: what the device tab shows of the selected device (its metrics, analysis and
\* explanation payloads, beside the online flag and age of the snapshot's row) is
\* read from one state of the store: the state the snapshot was taken in.
C2_ViewOfOneStoreState ==
    \A r \in Readers :
        (rpc[r] \in {"tab_ops", "ops_body", "ops_exit"} /\ rview[r].dev # "") =>
            /\ rview[r].mp = DictGetDefault(rbase[r].metrics, rview[r].dev, Obj(EmptyDict))
            /\ rview[r].ap = DictGetDefault(rbase[r].analysis, rview[r].dev, Obj(EmptyDict))
            /\ rview[r].ep = DictGetDefault(rbase[r].explain, rview[r].dev, Obj(EmptyDict))

LastN(s, n) == SubSeq(s, Len(s) - Min2(n, Len(s)) + 1, Len(s))

\* C3: each latency and score history holds at most HistMaxlen entries, and they are
\* the last HistMaxlen numeric samples accepted for the device, in arrival order.
C3_HistoryIsLastSamples ==
    /\ DOMAIN data.lat_hist = DOMAIN arrivals.lat
    /\ DOMAIN data.score_hist = DOMAIN arrivals.score
    /\ \A d \in DOMAIN data.lat_hist :
        /\ Len(data.lat_hist[d]) <= HistMaxlen
        /\ [i \in 1..Len(data.lat_hist[d]) |-> data.lat_hist[d][i].lat] = LastN(arrivals.lat[d], HistMaxlen)
    /\ \A d \in DOMAIN data.score_hist :
        /\ Len(data.score_hist[d]) <= HistMaxlen
        /\ [i \in 1..Len(data.score_hist[d]) |-> data.score_hist[d][i].score] = LastN(arrivals.score[d], HistMaxlen)

\* More samples than the capacity have arrived for d1, the evicted one unlike the
\* newest.
C3_Witness ==
    /\ "d1" \in DOMAIN arrivals.lat
    /\ Len(arrivals.lat["d1"]) > HistMaxlen
    /\ arrivals.lat["d1"][1] # arrivals.lat["d1"][Len(arrivals.lat["d1"])]

\* C4: a call whose payload is not a JSON object ends at its decoding: the store and
\* the lock are as before, and the thread is back to take the next message.
C4_BadPayloadDiscarded ==
    [][\A w \in Writers :
          (wpc[w] = "decode" /\ wpc'[w] # "decode" /\ ~IsRecord(wmsg[w])) =>
              /\ data' = data
              /\ committed' = committed
              /\ lock' = lock
              /\ lock' # w
              /\ wpc'[w] = "idle"]_vars

\* A thread discarded a message and ingested the next one.
C4_Witness ==
    \E w \in Writers :
        /\ Len(wout[w]) >= 2
        /\ wout[w][1] = "discarded"
        /\ wout[w][2] = "ingested"
        /\ lock = Free
        /\ "d1" \in DOMAIN data.metrics

\* The sub-field `kind` of a stored payload is absent or is not an object
EmptySubfield(payload, kind) == kind \notin DOMAIN payload.f \/ payload.f[kind].k # "obj"

RowOf(df, dev) == df[CHOOSE i \in 1..Len(df) : df[i].device = dev]

\* C5: a device whose latest metrics (analysis) message has no object in its
\* sub-field has been ingested (map entry, LastSeen), and snapshot_devices() returns
\* and lists the device with its metric (analysis) fields absent.
C5_EmptySubfieldIsEmptyRecord ==
    LET snap == snapshot_devices(data, now) IN
    /\ \A d \in DOMAIN data.metrics :
        EmptySubfield(data.metrics[d], "metrics") =>
            /\ d \in DOMAIN data.last_seen_by_device
            /\ ~snap.raised
            /\ d \in DevicesOf(snap.df)
            /\ RowOf(snap.df, d).rssi_dbm = None /\ RowOf(snap.df, d).latency_ms = None
            /\ RowOf(snap.df, d).jitter_ms = None /\ RowOf(snap.df, d).loss_pct = None
    /\ \A d \in DOMAIN data.analysis :
        EmptySubfield(data.analysis[d], "analysis") =>
            /\ d \in DOMAIN data.last_seen_by_device
            /\ ~snap.raised
            /\ d \in DevicesOf(snap.df)
            /\ ~RowOf(snap.df, d).handover /\ ~RowOf(snap.df, d).congestion

\* C6: an on_message call with a topic outside the three namespaces leaves every
\* per-device map, history and LastSeen entry as it was.
C6_OtherTopicIgnored ==
    [][(nmsgs' = nmsgs + 1 /\ IsRecord(wmsg'["w1"]) /\ ~InNamespace(wmsg'["w1"])) =>
          /\ data'.metrics = data.metrics
          /\ data'.analysis = data.analysis
          /\ data'.explain = data.explain
          /\ data'.lat_hist = data.lat_hist
          /\ data'.score_hist = data.score_hist
          /\ data'.last_seen_by_device = data.last_seen_by_device]_vars

\* C7: the devices of a snapshot are the keys of the three maps as the call read
\* them, each in one row, and each the device id of an ingested metrics, analysis or
\* explain message.
C7_DevicesAreUnionOfKeys ==
    \A r \in Readers :
        (rsnap[r].taken /\ ~rsnap[r].raised) =>
            /\ DevicesOf(rsnap[r].df) = KeysOf(rbase[r])
            /\ Len(rsnap[r].df) = Cardinality(KeysOf(rbase[r]))
            /\ DevicesOf(rsnap[r].df) \subseteq ingested

\* A snapshot of a device that is in the metrics and the analysis map, while
\* another id was never ingested.
C7_Witness ==
    /\ rsnap["r1"].taken /\ ~rsnap["r1"].raised
    /\ "d1" \in (DOMAIN rbase["r1"].metrics) \cap (DOMAIN rbase["r1"].analysis)
    /\ Len(rsnap["r1"].df) = 1
    /\ "d2" \notin ingested

\* C8 as claimed: two snapshot_devices() calls with no on_message call between them
\* return the same rows in the same order.
C8_ConsecutiveSnapshotsEqual ==
    \A r \in Readers :
        (rprev[r].taken /\ rsnap[r].taken) =>
            /\ rsnap[r].raised = rprev[r].raised
            /\ rsnap[r].df = rprev[r].df

\* What of a row is read from the store alone
StoredPart(row) ==
    [device |-> row.device, health |-> row.health, rssi_dbm |-> row.rssi_dbm,
     latency_ms |-> row.latency_ms, jitter_ms |-> row.jitter_ms, loss_pct |-> row.loss_pct,
     handover |-> row.handover, congestion |-> row.congestion]

\* C8, amended: two snapshot_devices() calls with no on_message call between them
\* return the same devices with the same health, metric values and flags; they
\* return the same rows in the same order when they read the same clock value.
C8_ConsecutiveSnapshotsAgree ==
    \A r \in Readers :
        (rprev[r].taken /\ rsnap[r].taken) =>
            /\ rsnap[r].raised = rprev[r].raised
            /\ {StoredPart(rsnap[r].df[i]) : i \in 1..Len(rsnap[r].df)}
                   = {StoredPart(rprev[r].df[i]) : i \in 1..Len(rprev[r].df)}
            /\ Len(rsnap[r].df) = Len(rprev[r].df)
            /\ (rsnap[r].now_ts = rprev[r].now_ts => rsnap[r].df = rprev[r].df)

\* Two snapshots with no on_message call between them, the second one later, of a
\* device that went offline meanwhile.
C8_Witness ==
    /\ rprev["r1"].taken /\ rsnap["r1"].taken
    /\ rsnap["r1"].now_ts > rprev["r1"].now_ts
    /\ Len(rsnap["r1"].df) >= 1
    /\ rprev["r1"].df[1].online
    /\ ~rsnap["r1"].df[1].online

\* C9: the two build_incidents calls of a script run, on the same df_devices,
\* return the same incidents in the same order.
C9_BuildIncidentsRepeatable ==
    \A r \in Readers : Len(rinc[r]) = 2 => rinc[r][1] = rinc[r][2]

Waiting(t) ==
    IF t \in Writers THEN wpc[t] \in {"lock", "conn_lock"} ELSE rpc[t] \in {"snapshot", "tab_ops"}

\* C10: a thread that holds the store lock releases it, also when its critical
\* section raised, and a thread that waits for the lock gets it.
C10_LockReleasedAndGranted ==
    \A t \in Threads :
        /\ (lock = t) ~> (lock # t)
        /\ Waiting(t) ~> ~Waiting(t)

\* A callback's critical section has raised while a script run waits for the lock.
C10_Witness ==
    \E w \in Writers, r \in Readers :
        /\ lock = w
        /\ wpc[w] = "exit"
        /\ wraised[w]
        /\ Waiting(r)

\* The incidents of device dev in one build_incidents result, in order
IncidentsOf(res, dev) == SelectSeq(res, LAMBDA x : x.device = dev)

C12_BadBeforeWarn ==
    \A r \in Readers : \A k \in 1..Len(rinc[r]) :
        \A i, j \in 1..Len(rinc[r][k]) :
            (rinc[r][k][i].sev = "warn" /\ rinc[r][k][j].sev = "bad") => j < i

\* A result with a bad incident of a row that comes after a row with a warn incident.
C12_Witness ==
    /\ Len(rinc["r1"]) >= 1
    /\ Len(rsnap["r1"].df) = 2
    /\ rsnap["r1"].df[1].online /\ rsnap["r1"].df[1].device = "d1"
    /\ ~rsnap["r1"].df[2].online
    /\ Len(rinc["r1"][1]) = 2
    /\ rinc["r1"][1][1] = Incident("d2", "bad", "offline")
    /\ rinc["r1"][1][2] = Incident("d1", "warn", "weak_signal")

\* C13: in every build_incidents result, whose incidents all carry the timestamp of
\* the call, incidents of the same severity are in ascending order of device id.
C13_EqualSeverityByDeviceId ==
    \A r \in Readers : \A k \in 1..Len(rinc[r]) :
        \A i, j \in 1..Len(rinc[r][k]) :
            (i < j /\ rinc[r][k][i].sev = rinc[r][k][j].sev) =>
                DevRank(rinc[r][k][i].device) <= DevRank(rinc[r][k][j].device)

\* The reading `field` of the metrics record stored for dev: None when the record,
\* its sub-field or the field is absent or is not a number
Reading(store, dev, field) ==
    IF dev \notin DOMAIN store.metrics \/ EmptySubfield(store.metrics[dev], "metrics") THEN None
    ELSE LET mb == store.metrics[dev].f["metrics"].f IN
         IF field \in DOMAIN mb /\ mb[field].k = "num" THEN Some(mb[field].v) ELSE None

\* The four readings of dev, in the order of compute_score's parameters
Readings(store, dev) ==
    <<Reading(store, dev, "rssi_dbm"), Reading(store, dev, "latency_ms_avg"),
      Reading(store, dev, "jitter_ms"), Reading(store, dev, "packet_loss_pct")>>

\* C14: the score computed for a device is absent exactly when its four readings are
\* absent, and is otherwise an integer in 0..100; a reading of 0 is a reading.
C14_ScoreAbsentIffAllAbsent ==
    \A r \in Readers : \A i \in 1..Len(rsnap[r].df) :
        LET row == rsnap[r].df[i]
            in == Readings(rbase[r], row.device)
        IN (row.device \notin DOMAIN rbase[r].analysis) =>
              /\ (row.health = None) <=> (\A k \in 1..4 : in[k] = None)
              /\ row.health # None => row.health[1] \in 0..100

\* A score was computed from a single reading, of value 0.
C14_Witness ==
    /\ rsnap["r1"].taken
    /\ Len(rsnap["r1"].df) = 1
    /\ Readings(rbase["r1"], "d1") = <<None, Some(0), None, None>>
    /\ rsnap["r1"].df[1].health = Some(100)

\* The reference tiers
RefRssi(v) == IF v >= -60 THEN 0 ELSE IF v >= -70 THEN 8 ELSE IF v >= -80 THEN 20 ELSE 35
RefLatency(v) == IF v <= 60 THEN 0 ELSE IF v <= 120 THEN 10 ELSE IF v <= 200 THEN 25 ELSE 40
RefJitter(v) == IF v <= 15 THEN 0 ELSE IF v <= 35 THEN 10 ELSE IF v <= 60 THEN 20 ELSE 30
RefLoss(v) == IF v <= 1 THEN 0 ELSE IF v <= 3 THEN 15 ELSE IF v <= 6 THEN 30 ELSE 45

RefScore(in) ==
    LET raw == 100 - (IF in[1] = None THEN 0 ELSE RefRssi(in[1][1]))
                   - (IF in[2] = None THEN 0 ELSE RefLatency(in[2][1]))
                   - (IF in[3] = None THEN 0 ELSE RefJitter(in[3][1]))
                   - (IF in[4] = None THEN 0 ELSE RefLoss(in[4][1]))
    IN IF raw < 0 THEN 0 ELSE IF raw > 100 THEN 100 ELSE raw

\* C15: the score computed from readings of which one at least is present is 100
\* minus the reference penalty of each present reading, clamped to 0..100.
C15_ScoreIsReferenceTiers ==
    \A r \in Readers : \A i \in 1..Len(rsnap[r].df) :
        LET row == rsnap[r].df[i]
            in == Readings(rbase[r], row.device)
        IN (row.device \notin DOMAIN rbase[r].analysis /\ \E k \in 1..4 : in[k] # None) =>
              row.health = Some(RefScore(in))

\* RSSI -85, latency 40, jitter 5, loss 0 scored 65.
C15_Witness ==
    /\ rsnap["r1"].taken
    /\ Len(rsnap["r1"].df) = 1
    /\ Readings(rbase["r1"], "d1") = <<Some(-85), Some(40), Some(5), Some(0)>>
    /\ rsnap["r1"].df[1].health = Some(65)

\* The values of the readings that ScoreMessages carry
ValuesOf(S) == {x.v : x \in {y \in S : y.k = "num"}}

\* C16: the score computed from a device's readings is not above the score of the
\* same readings with a higher RSSI, a lower latency, a lower jitter or a lower loss.
C16_ScoreMonotone ==
    \A r \in Readers : \A i \in 1..Len(rsnap[r].df) :
        LET row == rsnap[r].df[i]
            in == Readings(rbase[r], row.device)
        IN (row.device \notin DOMAIN rbase[r].analysis) =>
              /\ in[1] # None => \A v \in ValuesOf(ScoreRssi) :
                    v >= in[1][1] => row.health[1] <= compute_score(Some(v), in[2], in[3], in[4])[1]
              /\ in[2] # None => \A v \in ValuesOf(ScoreLatency) :
                    v <= in[2][1] => row.health[1] <= compute_score(in[1], Some(v), in[3], in[4])[1]
              /\ in[3] # None => \A v \in ValuesOf(ScoreJitter) :
                    v <= in[3][1] => row.health[1] <= compute_score(in[1], in[2], Some(v), in[4])[1]
              /\ in[4] # None => \A v \in ValuesOf(ScoreLoss) :
                    v <= in[4][1] => row.health[1] <= compute_score(in[1], in[2], in[3], Some(v))[1]

\* A score below the score of the same readings with a lower jitter.
C16_Witness ==
    /\ rsnap["r1"].taken
    /\ Len(rsnap["r1"].df) = 1
    /\ Readings(rbase["r1"], "d1") = <<Some(-71), Some(121), Some(36), Some(2)>>
    /\ rsnap["r1"].df[1].health[1] < compute_score(Some(-71), Some(121), Some(35), Some(2))[1]

\* The score of the analysis record stored for dev, when it is a number
AnalyzerScore(store, dev) ==
    IF dev \notin DOMAIN store.analysis \/ EmptySubfield(store.analysis[dev], "analysis") THEN None
    ELSE LET ab == store.analysis[dev].f["analysis"].f IN
         IF "wireless_score_0_100" \in DOMAIN ab /\ ab["wireless_score_0_100"].k = "num"
         THEN Some(ab["wireless_score_0_100"].v) ELSE None

\* The analysis record stored for dev carries a score, of any type
HasAnalyzerScore(store, dev) ==
    /\ dev \in DOMAIN store.analysis
    /\ ~EmptySubfield(store.analysis[dev], "analysis")
    /\ "wireless_score_0_100" \in DOMAIN store.analysis[dev].f["analysis"].f

\* C17: the health of a row is the analyzer's score when the device's analysis record
\* carries a number, whatever its readings are, and the score computed from its
\* readings when the device has no analyzer score.
C17_AnalyzerScoreFirst ==
    \A r \in Readers : \A i \in 1..Len(rsnap[r].df) :
        LET row == rsnap[r].df[i]
            in == Readings(rbase[r], row.device)
        IN /\ AnalyzerScore(rbase[r], row.device) # None =>
                 row.health = AnalyzerScore(rbase[r], row.device)
           /\ ~HasAnalyzerScore(rbase[r], row.device) =>
                 row.health = compute_score(in[1], in[2], in[3], in[4])

\* Health 92 of a device whose readings compute to 40.
C17_Witness ==
    /\ rsnap["r1"].taken
    /\ Len(rsnap["r1"].df) = 1
    /\ AnalyzerScore(rbase["r1"], "d1") = Some(92)
    /\ compute_score(Some(-85), Some(130), Some(5), Some(0)) = Some(40)
    /\ Readings(rbase["r1"], "d1") = <<Some(-85), Some(130), Some(5), Some(0)>>
    /\ rsnap["r1"].df[1].health = Some(92)

\* The latency samples stored for dev, oldest first
LatencyHistory(store, dev) ==
    LET hist == sort_by_t(DictGetDefault(store.lat_hist, dev, <<>>))
    IN [i \in 1..Len(hist) |-> hist[i].lat]

\* A build_incidents result holds a latency_anomaly incident of dev
HasAnomalyIncident(res, dev) ==
    \E i \in 1..Len(res) : res[i].device = dev /\ res[i].type = "latency_anomaly"

\* C18: a device with fewer than max(min_samples, z_window) latency samples gets no
\* verdict from compute_latency_anomaly, and no latency_anomaly incident from a
\* build_incidents call that read this history.
C18_ShortHistoryNoVerdict ==
    \A d \in Keys :
        Len(LatencyHistory(data, d)) < Max2(min_samples, z_window) =>
            /\ ~compute_latency_anomaly(data, d).verdict
            /\ \A r \in Readers : \A k \in 1..Len(rinc[r]) :
                  rfresh[r] => ~HasAnomalyIncident(rinc[r][k], d)

\* build_incidents reported an anomaly of d1 and none of d2, which is online with
\* fewer samples than the detector asks for.
C18_Witness ==
    /\ rfresh["r1"]
    /\ Len(rinc["r1"]) >= 1
    /\ HasAnomalyIncident(rinc["r1"][1], "d1")
    /\ \E i \in 1..Len(rsnap["r1"].df) : rsnap["r1"].df[i].device = "d2" /\ rsnap["r1"].df[i].online
    /\ Len(LatencyHistory(data, "d2")) \in 1..(Max2(min_samples, z_window) - 1)
    /\ ~HasAnomalyIncident(rinc["r1"][1], "d2")

\* The last z_window samples of a history are one value
FlatWindow(h) ==
    /\ Len(h) >= z_window
    /\ \A i \in (Len(h) - z_window + 1)..Len(h) : h[i] = h[Len(h)]

\* C19: a device whose last z_window latency samples are identical gets no verdict
\* from compute_latency_anomaly, and no latency_anomaly incident from a
\* build_incidents call that read this history, whatever the older samples are.
C19_FlatWindowNoVerdict ==
    \A d \in Keys :
        FlatWindow(LatencyHistory(data, d)) =>
            /\ ~compute_latency_anomaly(data, d).verdict
            /\ \A r \in Readers : \A k \in 1..Len(rinc[r]) :
                  rfresh[r] => ~HasAnomalyIncident(rinc[r][k], d)

\* build_incidents ran on d1, online, whose history is an older sample of 50 and a
\* window of samples of 10.
C19_Witness ==
    /\ rfresh["r1"]
    /\ Len(rinc["r1"]) >= 1
    /\ \E i \in 1..Len(rsnap["r1"].df) : rsnap["r1"].df[i].device = "d1" /\ rsnap["r1"].df[i].online
    /\ Len(LatencyHistory(data, "d1")) > z_window
    /\ LatencyHistory(data, "d1")[1] = 50
    /\ FlatWindow(LatencyHistory(data, "d1"))

\* Map m2 is map m1 with the entry of dev set to value, every other entry as it was
OnlyEntrySet(m1, m2, dev, value) ==
    /\ DOMAIN m2 = (DOMAIN m1) \cup {dev}
    /\ m2[dev] = value
    /\ \A d \in (DOMAIN m1) \ {dev} : m2[d] = m1[d]

\* Histories h2 are histories h1 with one entry more for dev when `grows`, and are h1
\* otherwise
OnlyHistoryGrows(h1, h2, dev, grows) ==
    IF grows
    THEN /\ DOMAIN h2 = (DOMAIN h1) \cup {dev}
         /\ \A d \in (DOMAIN h1) \ {dev} : h2[d] = h1[d]
         /\ Len(h2[dev]) = Len(DictGetDefault(h1, dev, <<>>)) + 1
         /\ SubSeq(h2[dev], 1, Len(h2[dev]) - 1) = DictGetDefault(h1, dev, <<>>)
    ELSE h2 = h1

\* C20: an on_message call with a record of one of the three kinds sets the entry of
\* its device in the map of its kind to the payload as received, adds a sample to the
\* device's latency (score) history exactly when the metrics (analysis) record
\* carries a latency (score) that is a number, and leaves every other map, history
\* and device as it was.
C20_IngestChangesOwnKindAndDevice ==
    [][(nmsgs' = nmsgs + 1 /\ IsRecord(wmsg'["w1"]) /\ InNamespace(wmsg'["w1"])) =>
          LET msg == wmsg'["w1"]
              dev == DeviceOf(msg)
              kind == TopicKind(msg.topic)
              lat == SampleOf(msg, MetricsTopic, "metrics", "latency_ms_avg")
              score == SampleOf(msg, AnalysisTopic, "analysis", "wireless_score_0_100")
          IN /\ IF kind = "metrics" THEN OnlyEntrySet(data.metrics, data'.metrics, dev, msg.payload.value)
                ELSE data'.metrics = data.metrics
             /\ IF kind = "analysis" THEN OnlyEntrySet(data.analysis, data'.analysis, dev, msg.payload.value)
                ELSE data'.analysis = data.analysis
             /\ IF kind = "explain" THEN OnlyEntrySet(data.explain, data'.explain, dev, msg.payload.value)
                ELSE data'.explain = data.explain
             /\ OnlyHistoryGrows(data.lat_hist, data'.lat_hist, dev, lat # None)
             /\ OnlyHistoryGrows(data.score_hist, data'.score_hist, dev, score # None)]_vars

\* A snapshot_devices() call that returned
Returned(snap) == snap.taken /\ ~snap.raised

\* C21: no step removes a device id from the keys of the metrics, analysis or explain
\* map, and the devices of a snapshot are all among the devices of the snapshot taken
\* after it.
C21_DeviceRecordsNeverDeleted ==
    [][/\ DOMAIN data.metrics \subseteq DOMAIN data'.metrics
       /\ DOMAIN data.analysis \subseteq DOMAIN data'.analysis
       /\ DOMAIN data.explain \subseteq DOMAIN data'.explain
       /\ \A r \in Readers :
             (Returned(rsnap[r]) /\ Returned(rsnap'[r])) =>
                 DevicesOf(rsnap[r].df) \subseteq DevicesOf(rsnap'[r].df)]_vars

\* A snapshot lists a device that has gone silent next to one that is online, the
\* two with records in the same map.
C21_Witness ==
    /\ Returned(rsnap["r1"])
    /\ DOMAIN data.analysis = {"d1", "d2"}
    /\ \E i, j \in 1..Len(rsnap["r1"].df) :
          /\ rsnap["r1"].df[i].online = FALSE
          /\ rsnap["r1"].df[j].online = TRUE

\* C22: the body posted to the explanation service is {analysis: {device_id, raw,
\* analysis, question}} with the selected device, its metrics and analysis records as
\* the store holds them, and the question the user chose (the quick-diagnostic text,
\* or else the custom text).
C22_RequestCarriesQuestion ==
    \A r \in Readers :
        rpost[r].posted =>
            LET body == rpost[r].payload.analysis IN
            /\ DOMAIN rpost[r].payload = {"analysis"}
            /\ DOMAIN body = {"device_id", "raw", "analysis", "question"}
            /\ body.device_id = rview[r].dev
            /\ body.raw = sub_record(rview[r].mp, "metrics")
            /\ body.analysis = sub_record(rview[r].ap, "analysis")
            /\ body.question = question_to_use(rpost[r].quick, rpost[r].custom_q)

\* The time between the last message of dev and the snapshot, in ticks
Silence(r, dev) == rsnap[r].now_ts - rbase[r].last_seen_by_device[dev]

\* C23: in a snapshot a device is online exactly when the time since its last message
\* is at most online_grace_s, fractions of a second counted, and build_incidents
\* reports it offline exactly when that time is above online_grace_s.
C23_OfflineExactlyPastGrace ==
    \A r \in Readers :
        Returned(rsnap[r]) =>
            \A i \in 1..Len(rsnap[r].df) :
                LET dev == rsnap[r].df[i].device IN
                dev \in DOMAIN rbase[r].last_seen_by_device =>
                    /\ rsnap[r].df[i].online <=> (Silence(r, dev) <= online_grace_s * TicksPerSec)
                    /\ \A k \in 1..Len(rinc[r]) :
                          (IncidentsOf(rinc[r][k], dev) = <<Incident(dev, "bad", "offline")>>)
                              <=> (Silence(r, dev) > online_grace_s * TicksPerSec)

\* C24: with two callback threads running on_message at once and a clock that never
\* goes back, no step removes or lowers a device's entry of last_seen_by_device (so
\* the entry is the receipt time of the latest message stamped for the device).
C24_LastSeenNeverDecreases ==
    [][\A d \in DOMAIN data.last_seen_by_device :
          /\ d \in DOMAIN data'.last_seen_by_device
          /\ data'.last_seen_by_device[d] >= data.last_seen_by_device[d]]_vars

\* C25: in every snapshot the health of each device is absent or a number from 0 to
\* 100, analyzer scores outside 0..100 included.
C25_HealthInRange ==
    \A r \in Readers :
        Returned(rsnap[r]) =>
            \A i \in 1..Len(rsnap[r].df) :
                \/ rsnap[r].df[i].health = None
                \/ (0 <= rsnap[r].df[i].health[1] /\ rsnap[r].df[i].health[1] <= 100)

\* C26: store["connected"], which the broker badge shows, is never true while the
\* connection to the broker is down: it is false before the first connect and false
\* again from the loss of the connection until the next on_connect.
C26_ConnectedOnlyWhileUp ==
    data.connected => link = "up"

====
